---- MODULE Spec2Model ----
(***************************************************************************)
(* Model of src/utils.js: the RPC endpoint resolver (getProvider) with its *)
(* process-wide providerCache, the fee estimator (getGasParams), the       *)
(* transaction executor (executeTransaction) and the bridge transfer       *)
(* orchestrator (sendToken).                                               *)
(*                                                                         *)
(* Every `await` of the source is a suspension point: one action of the    *)
(* model is the code that runs between two suspension points.  The remote  *)
(* chain is the environment: the outcome of every probe, read, submission  *)
(* and confirmation wait is chosen nondeterministically.                   *)
(***************************************************************************)
EXTENDS Integers, Sequences, FiniteSets, TLC

\* ------------------------------------------------------------------ bounds
\* transfers the transfer caller may start, one after the other
MaxCalls == 2
\* callers that call the exported getProvider directly, concurrently
NumResolvers == 2
\* direct getProvider calls these callers may start, all together
MaxResolves == 3
MaxLiveFee == 12

\* ----------------------------------------------------- arbitrary precision
\* ethers works on BigInt; a value is its decimal digits, most significant
\* first, without leading zeros (zero is <<0>>).
Zeros(n) == [i \in 1..n |-> 0]

RECURSIVE StripZeros(_)
StripZeros(a) ==
  IF Len(a) > 1 /\ a[1] = 0 THEN StripZeros(Tail(a))
  ELSE IF a = <<>> THEN <<0>> ELSE a

BigLt(a, b) ==
  LET x == StripZeros(a)
      y == StripZeros(b)
  IN \/ Len(x) < Len(y)
     \/ /\ Len(x) = Len(y)
        /\ \E i \in 1..Len(x) : x[i] < y[i] /\ \A j \in 1..(i - 1) : x[j] = y[j]

RECURSIVE MulCarry(_, _, _)
MulCarry(a, k, carry) ==
  IF a = <<>>
  THEN IF carry = 0 THEN <<>> ELSE MulCarry(<<>>, k, carry \div 10) \o <<carry % 10>>
  ELSE LET d == a[Len(a)] * k + carry
       IN MulCarry(SubSeq(a, 1, Len(a) - 1), k, d \div 10) \o <<d % 10>>

BigMul(a, k) == StripZeros(MulCarry(a, k, 0))

RECURSIVE DivRem(_, _, _)
DivRem(a, k, rem) ==
  IF a = <<>> THEN <<>>
  ELSE LET cur == rem * 10 + a[1]
       IN <<cur \div k>> \o DivRem(Tail(a), k, cur % k)

BigDiv(a, k) == StripZeros(DivRem(a, k, 0))

\* ------------------------------------------------------- decimal strings
\* A decimal string "int.frac" is [int, frac]; frac = <<>> is "no point".
Dec(i, f) == [int |-> i, frac |-> f]
NoDec == Dec(<<>>, <<>>)
\* parseUnits throws "too many decimals for format"
ParseError == <<-1>>

\* ethers.parseUnits(value, decimals): pad the fraction with zeros to
\* `decimals` digits; digits beyond `decimals` must all be zero.
parseUnits(s, decimals) ==
  LET whole == IF s.int = <<>> THEN <<0>> ELSE s.int
      padded == IF Len(s.frac) < decimals
                THEN s.frac \o Zeros(decimals - Len(s.frac))
                ELSE s.frac
  IN IF \E i \in (decimals + 1)..Len(padded) : padded[i] # 0
     THEN ParseError
     ELSE StripZeros(whole \o SubSeq(padded, 1, decimals))

RECURSIVE TrimTrailingZeros(_)
TrimTrailingZeros(f) ==
  IF Len(f) > 1 /\ f[Len(f)] = 0 THEN TrimTrailingZeros(SubSeq(f, 1, Len(f) - 1))
  ELSE f

\* ethers.formatUnits(value, decimals)
formatUnits(v, decimals) ==
  IF decimals = 0 THEN Dec(StripZeros(v), <<>>)
  ELSE LET str == IF Len(v) <= decimals THEN Zeros(decimals + 1 - Len(v)) \o v ELSE v
           index == Len(str) - decimals
       IN Dec(StripZeros(SubSeq(str, 1, index)),
              TrimTrailingZeros(SubSeq(str, index + 1, Len(str))))

\* ------------------------------------------------------------ configuration
\* config.js is not part of the sources at hand: a representative static
\* configuration.  SEPOLIA has a primary endpoint, one fallback, a bridge
\* contract and a WETH entry; HOLESKY has no primary endpoint, no fallback
\* list and no bridge contract.
KnownChains == {"SEPOLIA", "HOLESKY"}
CHAINS(c) == IF c = "SEPOLIA" THEN 11155111 ELSE IF c = "HOLESKY" THEN 17000 ELSE 0
RPC_URLS(c) == IF c = "SEPOLIA" THEN "https://rpc.sepolia.example" ELSE ""
RPC_FALLBACKS(c) == IF c = "SEPOLIA" THEN <<"https://fallback.sepolia.example">> ELSE <<>>
UNION_CONTRACT(c) == IF c = "SEPOLIA" THEN "0xBridge" ELSE ""
TOKENS_WETH(c) == IF c = "SEPOLIA" THEN "0xWETH" ELSE ""

\* JavaScript truthiness of the values the source tests with !x, x || y
TruthyNum(n) == n # 0
TruthyStr(s) == s # ""
Null == <<>>
TruthyBig(b) == b # Null /\ StripZeros(b) # <<0>>

\* ------------------------------------------------------ program constants
KeyHexLen == 64
DefaultGasLimit == 500000
MarkupNum == 125
MarkupDen == 100
GweiDecimals == 9
EtherDecimals == 18
DefaultDecimals == 18
ApproveGasERC20 == 100000
ApproveGasWETH == 200000
DepositGasERC20 == 300000
DepositGasWETH == 350000
DefaultMaxFee == parseUnits(Dec(<<2, 0>>, <<>>), GweiDecimals)
DefaultMaxPriorityFee == parseUnits(Dec(<<1, 5>>, <<>>), GweiDecimals)
ZeroAddress == "0x0000000000000000000000000000000000000000"
PublicDefaultUrl == "https://ethereum-sepolia.publicnode.com"

\* ------------------------------------------------------------ signing key
\* /^0x[0-9a-fA-F]{64}$/ on a string given as its sequence of characters
HexDigits == {"0", "1", "2", "3", "4", "5", "6", "7", "8", "9",
              "a", "b", "c", "d", "e", "f", "A", "B", "C", "D", "E", "F"}
NoKey == <<"undefined">>
Rep(ch, n) == [i \in 1..n |-> ch]

\* variant: the pattern without its end anchor, /^0x[0-9a-fA-F]{64}/
MatchesKeyPattern_Unanchored(k) ==
  /\ k # NoKey
  /\ Len(k) >= 2 + KeyHexLen
  /\ k[1] = "0"
  /\ k[2] = "x"
  /\ \A i \in 3..(2 + KeyHexLen) : k[i] \in HexDigits

MatchesKeyPattern(k) ==
  /\ k # NoKey
  /\ Len(k) = 2 + KeyHexLen
  /\ k[1] = "0"
  /\ k[2] = "x"
  /\ \A i \in 3..Len(k) : k[i] \in HexDigits

\* wallet.getAddress(): the address is a function of the key
AddressOf(k) == IF k[3] = "a" THEN "0xSenderA" ELSE "0xSenderB"

\* ethers.getAddress(recipient): checksummed form, or a throw
IsAddress(a) == a \in {"0xrecipient", "0xRecipient"}
getAddress(a) == IF a = "0xrecipient" THEN "0xRecipient" ELSE a

\* ----------------------------------------------------------- getGasParams
\* feeData: [ok, maxFeePerGas, maxPriorityFeePerGas], a field Null when the
\* network reports none; ok = FALSE when provider.getFeeData() throws.
\* overrideSettings: fields Null (bigint) or 0 (gasLimit) when not supplied.
GasDefaults ==
  [maxFeePerGas |-> DefaultMaxFee,
   maxPriorityFeePerGas |-> DefaultMaxPriorityFee,
   gasLimit |-> DefaultGasLimit]

\* variant: the division before the multiplication
Markup_DivideFirst(v) == BigMul(BigDiv(v, MarkupDen), MarkupNum)

\* feeData.x * 125n / 100n
Markup(v) == BigDiv(BigMul(v, MarkupNum), MarkupDen)

\* a || (b * 125n / 100n) || c; null * 125n is a TypeError, reached only
\* when a is not truthy
MixTypeError == <<-2>>

FeeField(override, live, fallback) ==
  IF TruthyBig(override) THEN override
  ELSE IF live = Null THEN MixTypeError
  ELSE IF TruthyBig(Markup(live)) THEN Markup(live)
  ELSE fallback

\* variant: no try/catch, the error of the fee read or of the arithmetic
\* leaves getGasParams (GasThrown stands for the rejected promise)
GasThrown ==
  [maxFeePerGas |-> MixTypeError, maxPriorityFeePerGas |-> MixTypeError, gasLimit |-> 0]

getGasParams_NoCatch(feeData, overrideSettings) ==
  LET mf == FeeField(overrideSettings.maxFeePerGas, feeData.maxFeePerGas, DefaultMaxFee)
      mp == FeeField(overrideSettings.maxPriorityFeePerGas,
                     feeData.maxPriorityFeePerGas, DefaultMaxPriorityFee)
  IN IF ~feeData.ok \/ mf = MixTypeError \/ mp = MixTypeError
     THEN GasThrown
     ELSE [maxFeePerGas |-> mf,
           maxPriorityFeePerGas |-> mp,
           gasLimit |-> IF TruthyNum(overrideSettings.gasLimit)
                        THEN overrideSettings.gasLimit ELSE DefaultGasLimit]

getGasParams(feeData, overrideSettings) ==
  LET mf == FeeField(overrideSettings.maxFeePerGas, feeData.maxFeePerGas, DefaultMaxFee)
      mp == FeeField(overrideSettings.maxPriorityFeePerGas,
                     feeData.maxPriorityFeePerGas, DefaultMaxPriorityFee)
  IN IF ~feeData.ok \/ mf = MixTypeError \/ mp = MixTypeError
     THEN GasDefaults
     ELSE [maxFeePerGas |-> mf,
           maxPriorityFeePerGas |-> mp,
           gasLimit |-> IF TruthyNum(overrideSettings.gasLimit)
                        THEN overrideSettings.gasLimit ELSE DefaultGasLimit]

\* ------------------------------------------------------------ getProvider
\* variant: the primary endpoint is listed, and so tried, twice
Endpoints_PrimaryTwice(c) ==
  SelectSeq(<<RPC_URLS(c), RPC_URLS(c)>> \o RPC_FALLBACKS(c) \o <<PublicDefaultUrl>>,
            TruthyStr)

\* candidate list: [primary, ...fallbacks, public default].filter(Boolean)
Endpoints(c) ==
  SelectSeq(<<RPC_URLS(c)>> \o RPC_FALLBACKS(c) \o <<PublicDefaultUrl>>, TruthyStr)

\* ------------------------------------------------------------------ state
Transferers == {0}
Resolvers == 1..NumResolvers
Procs == Transferers \cup Resolvers

VARIABLES
  providerCache,  \* the module-level Map: chain id -> <<provider>>, <<>> if absent
  pc,             \* where each caller's current call is suspended
  req,            \* the arguments of the current call
  gp,             \* getProvider's frame: chain, candidate index, provider probed
  loc,            \* sendToken's locals
  net,            \* the reads and probes the current call has issued, in order
  txs,            \* the transactions the current call has submitted, in order
  result,         \* how the current call ended
  diag,           \* "Bridge transfer failed" entries logged by the current call
  calls,          \* calls started so far, per caller
  writes,         \* history: providers stored in the cache, in order, per chain
  returned,       \* history: providers getProvider has returned, per chain
  seen,           \* history: returned[chain] when the current getProvider started
  failed,         \* history: chains for which a getProvider call has thrown
  est             \* a call of getGasParams on its own: its inputs and its result

vars == <<providerCache, pc, req, gp, loc, net, txs, result, diag, calls,
          writes, returned, seen, failed, est>>

\* an Error object: tx is the position, among the transactions of the call,
\* of the transaction whose executeTransaction threw it (0: none)
NoError == [type |-> "", chain |-> "", need |-> NoDec, has |-> NoDec, tx |-> 0]
Error(t) == [NoError EXCEPT !.type = t]
TxError(t, i) == [NoError EXCEPT !.type = t, !.tx = i]
AllFailedError(c) == [NoError EXCEPT !.type = "AllEndpointsFailed", !.chain = c]
InsufficientError(amount, has) ==
  [NoError EXCEPT !.type = "InsufficientBalance", !.need = amount, !.has = has]

NoResult == [status |-> "none", hash |-> <<>>, provider |-> <<>>, error |-> NoError]
NoReq ==
  [sourceChain |-> "", destChain |-> "", asset |-> "", amount |-> NoDec,
   privateKey |-> NoKey,
   gasSettings |-> [maxFeePerGas |-> Null, maxPriorityFeePerGas |-> Null, gasLimit |-> 0],
   recipient |-> "", referral |-> ""]
NoGp == [chainId |-> "", idx |-> 0, provider |-> <<>>, miss |-> FALSE, afterFail |-> FALSE]
NoLoc ==
  [provider |-> <<>>, senderAddress |-> "", recipientAddress |-> "",
   gasParams |-> [maxFeePerGas |-> Null, maxPriorityFeePerGas |-> Null, gasLimit |-> 0],
   bridgeAddress |-> "", tokenAddress |-> "",
   decimals |-> 0, parsedAmount |-> Null, balance |-> Null, allowance |-> Null]

NoGasParams == [maxFeePerGas |-> Null, maxPriorityFeePerGas |-> Null, gasLimit |-> 0]
NoEst ==
  [feeData |-> [ok |-> FALSE, maxFeePerGas |-> Null, maxPriorityFeePerGas |-> Null],
   overrideSettings |-> NoGasParams, phase |-> "none", out |-> NoGasParams]

InitTransfers ==
  /\ providerCache = [c \in KnownChains |-> <<>>]
  /\ pc = [p \in Procs |-> "idle"]
  /\ req = [p \in Procs |-> NoReq]
  /\ gp = [p \in Procs |-> NoGp]
  /\ loc = [p \in Procs |-> NoLoc]
  /\ net = [p \in Procs |-> <<>>]
  /\ txs = [p \in Procs |-> <<>>]
  /\ result = [p \in Procs |-> NoResult]
  /\ diag = [p \in Procs |-> 0]
  /\ calls = [p \in Procs |-> 0]
  /\ writes = [c \in KnownChains |-> <<>>]
  /\ returned = [c \in KnownChains |-> {}]
  /\ seen = [p \in Procs |-> {}]
  /\ failed = {}

Init == InitTransfers /\ est = NoEst

\* new ethers.JsonRpcProvider(url, ...): a fresh object on every construction
NewProvider(p, c, i) ==
  [chainId |-> CHAINS(c), name |-> c, url |-> Endpoints(c)[i], by |-> p, call |-> calls'[p]]

\* a fresh call: the caller's per-call state is reset
Begin(p) ==
  /\ pc[p] \in {"idle", "done"}
  /\ calls' = [calls EXCEPT ![p] = @ + 1]
  /\ txs' = [txs EXCEPT ![p] = <<>>]
  /\ loc' = [loc EXCEPT ![p] = NoLoc]

\* variant: a chain whose endpoints all failed counts as cached
CacheHas_OrFailed(c) == providerCache[c] # <<>> \/ c \in failed

\* providerCache.has(chainId)
CacheHas(c) == providerCache[c] # <<>>

\* getProvider up to its first await: the cache test, and on a miss the
\* construction and probe of the first candidate
EnterGetProvider(p, c, onHit) ==
  /\ seen' = [seen EXCEPT ![p] = returned[c]]
  /\ UNCHANGED <<providerCache, writes, failed>>
  /\ IF CacheHas(c)
     THEN /\ gp' = [gp EXCEPT ![p] = [chainId |-> c, idx |-> 0,
                                      provider |-> providerCache[c], miss |-> FALSE,
                                      afterFail |-> c \in failed]]
          /\ net' = [net EXCEPT ![p] = <<>>]
          /\ returned' = [returned EXCEPT ![c] =
                             @ \cup {providerCache[c][i] : i \in 1..Len(providerCache[c])}]
          /\ pc' = [pc EXCEPT ![p] = onHit]
     ELSE /\ gp' = [gp EXCEPT ![p] = [chainId |-> c, idx |-> 1,
                                      provider |-> <<NewProvider(p, c, 1)>>, miss |-> TRUE,
                                      afterFail |-> c \in failed]]
          /\ net' = [net EXCEPT ![p] = <<<<"probe", Endpoints(c)[1]>>>>]
          /\ returned' = returned
          /\ pc' = [pc EXCEPT ![p] = "probe"]

\* ---------------------------------------------------------------- inputs
KeyGood == <<"0", "x">> \o Rep("a", KeyHexLen \div 2) \o Rep("F", KeyHexLen \div 2)
BadKeys ==
  { NoKey,
    <<>>,
    <<"0", "x">> \o Rep("a", KeyHexLen - 1),
    <<"0", "x">> \o Rep("a", KeyHexLen + 1),
    Rep("a", KeyHexLen),
    Rep("a", KeyHexLen + 2),
    <<"0", "X">> \o Rep("a", KeyHexLen),
    <<"0", "x">> \o Rep("a", KeyHexLen - 1) \o <<"g">>,
    <<"0", "x">> \o Rep("F", KeyHexLen) \o <<"\n">> }

UnknownChains == {"UNKNOWN", ""}
Assets == {"native", "WETH", "0xToken"}
Amounts == {Dec(<<1>>, <<>>), Dec(<<0>>, <<5>>)}
Referrals == {"", "0xReferral"}
NoOverrides == [maxFeePerGas |-> Null, maxPriorityFeePerGas |-> Null, gasLimit |-> 0]
GasSettings == {NoOverrides, [NoOverrides EXCEPT !.gasLimit = 250000]}

\* requests that pass validation
ValidRequests ==
  [sourceChain : KnownChains, destChain : {"HOLESKY"}, asset : Assets,
   amount : Amounts, privateKey : {KeyGood}, gasSettings : GasSettings,
   recipient : {""}, referral : Referrals]

BaseRequests ==
  [sourceChain : {"SEPOLIA"}, destChain : {"HOLESKY"}, asset : {"0xToken"},
   amount : {Dec(<<1>>, <<>>)}, privateKey : {KeyGood}, gasSettings : {NoOverrides},
   recipient : {""}, referral : {""}]

\* requests with one field changed to something validation or address
\* resolution rejects
Requests ==
  ValidRequests
  \cup {[r EXCEPT !.sourceChain = c] : r \in BaseRequests, c \in UnknownChains}
  \cup {[r EXCEPT !.destChain = c] : r \in BaseRequests, c \in UnknownChains}
  \cup {[r EXCEPT !.sourceChain = "UNKNOWN", !.privateKey = NoKey] : r \in BaseRequests}
  \cup {[r EXCEPT !.privateKey = k] : r \in BaseRequests, k \in BadKeys}
  \cup {[r EXCEPT !.recipient = a] : r \in BaseRequests, a \in {"0xrecipient", "not-an-address"}}

\* what the remote chain may answer
ProbeOutcomes == {"answer", "error", "timeout"}
FeeDataOutcomes ==
  { [ok |-> FALSE, maxFeePerGas |-> Null, maxPriorityFeePerGas |-> Null],
    [ok |-> TRUE, maxFeePerGas |-> <<1, 0>>, maxPriorityFeePerGas |-> <<5>>],
    [ok |-> TRUE, maxFeePerGas |-> Null, maxPriorityFeePerGas |-> <<5>>] }
DecimalsOutcomes == {-1, 0, 6}
ChainAmounts ==
  { <<0>>, parseUnits(Dec(<<0>>, <<5>>), 6), parseUnits(Dec(<<3>>, <<>>), EtherDecimals) }
ReadOutcomes == {[ok |-> FALSE, value |-> Null]} \cup {[ok |-> TRUE, value |-> v] : v \in ChainAmounts}
SubmitOutcomes == {"rejected", "accepted"}
WaitOutcomes == {"waitError", "reverted", "success"}

\* ---------------------------------------------------------------- sendToken
isNative(asset) == asset = "native" \/ asset = "NATIVE"
isWETH(asset) == asset = "WETH"

\* variant: the catch block throws a new error in place of the one caught
Throw_Wrapped(p, e) ==
  /\ pc' = [pc EXCEPT ![p] = "done"]
  /\ result' = [result EXCEPT ![p] = [NoResult EXCEPT !.status = "error",
                                                      !.error = Error("BridgeTransferFailed")]]
  /\ diag' = [diag EXCEPT ![p] = @ + 1]

\* the catch block of sendToken: one diagnostic entry, then the error rethrown
Throw(p, e) ==
  /\ pc' = [pc EXCEPT ![p] = "done"]
  /\ result' = [result EXCEPT ![p] = [NoResult EXCEPT !.status = "error", !.error = e]]
  /\ diag' = [diag EXCEPT ![p] = @ + 1]

\* the same, in the first segment of a call (nothing logged by it before)
ThrowAtEntry(p, e) ==
  /\ pc' = [pc EXCEPT ![p] = "done"]
  /\ result' = [result EXCEPT ![p] = [NoResult EXCEPT !.status = "error", !.error = e]]
  /\ diag' = [diag EXCEPT ![p] = 1]

Return(p, h) ==
  /\ pc' = [pc EXCEPT ![p] = "done"]
  /\ result' = [result EXCEPT ![p] = [NoResult EXCEPT !.status = "ok", !.hash = h]]
  /\ diag' = diag

Tx(kind, method, args, overrides) ==
  [kind |-> kind, method |-> method, args |-> args, overrides |-> overrides,
   hash |-> <<>>, status |-> "calling", minedLater |-> FALSE]

\* variant: the approval is for the required amount, without headroom
ApproveTx_Exact(r, l) ==
  Tx("approve", "approve",
     <<l.bridgeAddress, l.parsedAmount>>,
     [value |-> Null,
      maxFeePerGas |-> l.gasParams.maxFeePerGas,
      maxPriorityFeePerGas |-> l.gasParams.maxPriorityFeePerGas,
      gasLimit |-> IF isWETH(r.asset) THEN ApproveGasWETH ELSE ApproveGasERC20])

ApproveTx(r, l) ==
  Tx("approve", "approve",
     <<l.bridgeAddress, BigMul(l.parsedAmount, 2)>>,
     [value |-> Null,
      maxFeePerGas |-> l.gasParams.maxFeePerGas,
      maxPriorityFeePerGas |-> l.gasParams.maxPriorityFeePerGas,
      gasLimit |-> IF isWETH(r.asset) THEN ApproveGasWETH ELSE ApproveGasERC20])

ReferralArg(r) == IF TruthyStr(r.referral) THEN r.referral ELSE ZeroAddress

\* variant: token deposits carry the gas limit of the computed fee parameters
DepositTx_TokenEstimatedGas(r, l, shape) ==
  IF isNative(r.asset)
  THEN Tx(shape, "depositNative",
          IF shape = "depositRef"
          THEN <<CHAINS(r.destChain), l.recipientAddress, ReferralArg(r)>>
          ELSE <<CHAINS(r.destChain), l.recipientAddress>>,
          [value |-> parseUnits(r.amount, EtherDecimals),
           maxFeePerGas |-> l.gasParams.maxFeePerGas,
           maxPriorityFeePerGas |-> l.gasParams.maxPriorityFeePerGas,
           gasLimit |-> l.gasParams.gasLimit])
  ELSE Tx(shape, "depositERC20",
          IF shape = "depositRef"
          THEN <<l.tokenAddress, l.parsedAmount, CHAINS(r.destChain),
                 l.recipientAddress, ReferralArg(r)>>
          ELSE <<l.tokenAddress, l.parsedAmount, CHAINS(r.destChain), l.recipientAddress>>,
          [value |-> Null,
           maxFeePerGas |-> l.gasParams.maxFeePerGas,
           maxPriorityFeePerGas |-> l.gasParams.maxPriorityFeePerGas,
           gasLimit |-> l.gasParams.gasLimit])

\* variant: the legacy-shape deposit is sent without the computed fees (with
\* the fixed default fees instead)
DepositTx_LegacyDefaultFees(r, l, shape) ==
  LET g == IF shape = "depositLegacy" THEN GasDefaults ELSE l.gasParams
  IN IF isNative(r.asset)
     THEN Tx(shape, "depositNative",
             IF shape = "depositRef"
             THEN <<CHAINS(r.destChain), l.recipientAddress, ReferralArg(r)>>
             ELSE <<CHAINS(r.destChain), l.recipientAddress>>,
             [value |-> parseUnits(r.amount, EtherDecimals),
              maxFeePerGas |-> g.maxFeePerGas,
              maxPriorityFeePerGas |-> g.maxPriorityFeePerGas,
              gasLimit |-> l.gasParams.gasLimit])
     ELSE Tx(shape, "depositERC20",
             IF shape = "depositRef"
             THEN <<l.tokenAddress, l.parsedAmount, CHAINS(r.destChain),
                    l.recipientAddress, ReferralArg(r)>>
             ELSE <<l.tokenAddress, l.parsedAmount, CHAINS(r.destChain), l.recipientAddress>>,
             [value |-> Null,
              maxFeePerGas |-> g.maxFeePerGas,
              maxPriorityFeePerGas |-> g.maxPriorityFeePerGas,
              gasLimit |-> IF isWETH(r.asset) THEN DepositGasWETH ELSE DepositGasERC20])

\* shape is "depositRef" (with the referral argument) or "depositLegacy"
DepositTx(r, l, shape) ==
  IF isNative(r.asset)
  THEN Tx(shape, "depositNative",
          IF shape = "depositRef"
          THEN <<CHAINS(r.destChain), l.recipientAddress, ReferralArg(r)>>
          ELSE <<CHAINS(r.destChain), l.recipientAddress>>,
          [value |-> parseUnits(r.amount, EtherDecimals),
           maxFeePerGas |-> l.gasParams.maxFeePerGas,
           maxPriorityFeePerGas |-> l.gasParams.maxPriorityFeePerGas,
           gasLimit |-> l.gasParams.gasLimit])
  ELSE Tx(shape, "depositERC20",
          IF shape = "depositRef"
          THEN <<l.tokenAddress, l.parsedAmount, CHAINS(r.destChain),
                 l.recipientAddress, ReferralArg(r)>>
          ELSE <<l.tokenAddress, l.parsedAmount, CHAINS(r.destChain), l.recipientAddress>>,
          [value |-> Null,
           maxFeePerGas |-> l.gasParams.maxFeePerGas,
           maxPriorityFeePerGas |-> l.gasParams.maxPriorityFeePerGas,
           gasLimit |-> IF isWETH(r.asset) THEN DepositGasWETH ELSE DepositGasERC20])

\* executeTransaction up to its first await: contract[method](...args, overrides)
Submit(p, tx) ==
  /\ txs' = [txs EXCEPT ![p] = Append(@, tx)]
  /\ pc' = [pc EXCEPT ![p] = "submit"]
  /\ UNCHANGED <<result, diag>>

\* variant: only the source chain is validated
ValidChains_SourceOnly(r) == TruthyNum(CHAINS(r.sourceChain))

\* CHAINS[sourceChain] && CHAINS[destChain]
ValidChains(r) == TruthyNum(CHAINS(r.sourceChain)) /\ TruthyNum(CHAINS(r.destChain))

\* sendToken up to its first await: validation, then getProvider(sourceChain)
StartTransfer(p, r) ==
  /\ calls[p] < MaxCalls
  /\ Begin(p)
  /\ req' = [req EXCEPT ![p] = r]
  /\ IF ~ValidChains(r)
     THEN /\ ThrowAtEntry(p, Error("InvalidChainConfiguration"))
          /\ net' = [net EXCEPT ![p] = <<>>]
          /\ gp' = [gp EXCEPT ![p] = NoGp]
          /\ UNCHANGED <<providerCache, writes, returned, seen, failed>>
     ELSE IF ~MatchesKeyPattern(r.privateKey)
     THEN /\ ThrowAtEntry(p, Error("InvalidPrivateKey"))
          /\ net' = [net EXCEPT ![p] = <<>>]
          /\ gp' = [gp EXCEPT ![p] = NoGp]
          /\ UNCHANGED <<providerCache, writes, returned, seen, failed>>
     ELSE /\ EnterGetProvider(p, r.sourceChain, "resolved")
          /\ result' = [result EXCEPT ![p] = NoResult]
          /\ diag' = [diag EXCEPT ![p] = 0]
  /\ UNCHANGED est

\* a direct call of the exported getProvider
RECURSIVE Started(_)
Started(n) == IF n = 0 THEN 0 ELSE calls[n] + Started(n - 1)

StartResolve(p, c) ==
  /\ Started(NumResolvers) < MaxResolves
  /\ Begin(p)
  /\ req' = [req EXCEPT ![p] = [NoReq EXCEPT !.sourceChain = c]]
  /\ EnterGetProvider(p, c, "done")
  /\ result' = [result EXCEPT ![p] =
                  IF CacheHas(c)
                  THEN [NoResult EXCEPT !.status = "ok", !.provider = providerCache[c]]
                  ELSE NoResult]
  /\ diag' = [diag EXCEPT ![p] = 0]
  /\ UNCHANGED est

\* getProvider resumed after Promise.race([getBlockNumber(), timeout])
ProbeDone(p, outcome) ==
  /\ pc[p] = "probe"
  /\ LET c == gp[p].chainId
         fromTransfer == p \in Transferers
     IN IF outcome = "answer"
        THEN \* providerCache.set(chainId, provider); return provider
             /\ providerCache' = [providerCache EXCEPT ![c] = gp[p].provider]
             /\ writes' = [writes EXCEPT ![c] = Append(@, gp[p].provider[1])]
             /\ returned' = [returned EXCEPT ![c] = @ \cup {gp[p].provider[1]}]
             /\ pc' = [pc EXCEPT ![p] = IF fromTransfer THEN "resolved" ELSE "done"]
             /\ result' = [result EXCEPT ![p] =
                             IF fromTransfer THEN @
                             ELSE [NoResult EXCEPT !.status = "ok", !.provider = gp[p].provider]]
             /\ UNCHANGED <<gp, net, diag, failed>>
        ELSE IF gp[p].idx < Len(Endpoints(c))
        THEN \* catch: continue with the next candidate
             /\ gp' = [gp EXCEPT ![p].idx = @ + 1,
                                 ![p].provider = <<[gp[p].provider[1] EXCEPT
                                                      !.url = Endpoints(c)[gp[p].idx + 1]]>>]
             /\ net' = [net EXCEPT ![p] = Append(@, <<"probe", Endpoints(c)[gp[p].idx + 1]>>)]
             /\ UNCHANGED <<providerCache, writes, returned, pc, result, diag, failed>>
        ELSE \* throw new Error(`All RPC endpoints failed for ${chainId}`)
             /\ failed' = failed \cup {c}
             /\ IF fromTransfer
                THEN Throw(p, AllFailedError(c))
                ELSE /\ pc' = [pc EXCEPT ![p] = "done"]
                     /\ result' = [result EXCEPT ![p] =
                                     [NoResult EXCEPT !.status = "error",
                                                      !.error = AllFailedError(c)]]
                     /\ diag' = diag
             /\ UNCHANGED <<providerCache, writes, returned, gp, net>>
  /\ UNCHANGED <<req, loc, txs, calls, seen>>
  /\ UNCHANGED est

\* sendToken resumed with the provider: wallet, addresses, then getGasParams
\* up to its await of provider.getFeeData()
Resolved(p) ==
  /\ pc[p] = "resolved"
  /\ LET r == req[p]
         sender == AddressOf(r.privateKey)
     IN IF TruthyStr(r.recipient) /\ ~IsAddress(r.recipient)
        THEN /\ Throw(p, Error("InvalidAddress"))
             /\ UNCHANGED <<loc, net>>
        ELSE /\ loc' = [loc EXCEPT ![p].provider = gp[p].provider,
                                   ![p].senderAddress = sender,
                                   ![p].recipientAddress =
                                      IF TruthyStr(r.recipient) THEN getAddress(r.recipient)
                                      ELSE sender]
             /\ net' = [net EXCEPT ![p] = Append(@, <<"getFeeData", "">>)]
             /\ pc' = [pc EXCEPT ![p] = "feeData"]
             /\ UNCHANGED <<result, diag>>
  /\ UNCHANGED <<providerCache, req, gp, txs, calls, writes, returned, seen, failed>>
  /\ UNCHANGED est

\* getGasParams returns; sendToken goes on to the bridge address, the asset
\* classification and the first remote call of its path
FeeDataDone(p, feeData) ==
  /\ pc[p] = "feeData"
  /\ LET r == req[p]
         l == [loc[p] EXCEPT
                 !.gasParams = getGasParams(feeData, r.gasSettings),
                 !.bridgeAddress = UNION_CONTRACT(r.sourceChain),
                 !.tokenAddress = IF isNative(r.asset) THEN ""
                                  ELSE IF isWETH(r.asset) THEN TOKENS_WETH(r.sourceChain)
                                  ELSE r.asset]
     IN /\ loc' = [loc EXCEPT ![p] = l]
        /\ IF ~TruthyStr(l.bridgeAddress)
           THEN /\ Throw(p, Error("MissingBridgeAddress"))
                /\ UNCHANGED <<net, txs>>
           ELSE IF isNative(r.asset)
           THEN IF parseUnits(r.amount, EtherDecimals) = ParseError
                THEN \* parseEther throws in both attempts, before any call
                     /\ Throw(p, Error("ParseError"))
                     /\ UNCHANGED <<net, txs>>
                ELSE /\ Submit(p, DepositTx(r, l, "depositRef"))
                     /\ net' = net
           ELSE IF ~TruthyStr(l.tokenAddress)
           THEN \* new ethers.Contract(undefined, ...) throws
                /\ Throw(p, Error("InvalidContractTarget"))
                /\ UNCHANGED <<net, txs>>
           ELSE /\ net' = [net EXCEPT ![p] = Append(@, <<"decimals", l.tokenAddress>>)]
                /\ pc' = [pc EXCEPT ![p] = "decimals"]
                /\ UNCHANGED <<txs, result, diag>>
  /\ UNCHANGED <<providerCache, req, gp, calls, writes, returned, seen, failed>>
  /\ UNCHANGED est

\* erc20.decimals().catch(() => 18); parseUnits; then erc20.balanceOf(sender)
DecimalsDone(p, outcome) ==
  /\ pc[p] = "decimals"
  /\ LET decimals == IF outcome = -1 THEN DefaultDecimals ELSE outcome
         parsedAmount == parseUnits(req[p].amount, decimals)
     IN IF parsedAmount = ParseError
        THEN /\ Throw(p, Error("ParseError"))
             /\ loc' = [loc EXCEPT ![p].decimals = decimals]
             /\ net' = net
        ELSE /\ loc' = [loc EXCEPT ![p].decimals = decimals,
                                   ![p].parsedAmount = parsedAmount]
             /\ net' = [net EXCEPT ![p] = Append(@, <<"balanceOf", loc[p].tokenAddress>>)]
             /\ pc' = [pc EXCEPT ![p] = "balance"]
             /\ UNCHANGED <<result, diag>>
  /\ UNCHANGED <<providerCache, req, gp, txs, calls, writes, returned, seen, failed>>
  /\ UNCHANGED est

\* variant: the comparison the other way round
InsufficientBalance_Swapped(balance, parsedAmount) == BigLt(parsedAmount, balance)

\* balance < parsedAmount
InsufficientBalance(balance, parsedAmount) == BigLt(balance, parsedAmount)

\* allowance < parsedAmount
NeedsApproval(allowance, parsedAmount) == BigLt(allowance, parsedAmount)

\* the balance check; then erc20.allowance(sender, bridge)
BalanceDone(p, outcome) ==
  /\ pc[p] = "balance"
  /\ IF ~outcome.ok
     THEN /\ Throw(p, Error("RpcError"))
          /\ UNCHANGED <<loc, net>>
     ELSE /\ loc' = [loc EXCEPT ![p].balance = outcome.value]
          /\ IF InsufficientBalance(outcome.value, loc[p].parsedAmount)
             THEN /\ Throw(p, InsufficientError(req[p].amount,
                                                formatUnits(outcome.value, loc[p].decimals)))
                  /\ net' = net
             ELSE /\ net' = [net EXCEPT ![p] = Append(@, <<"allowance", loc[p].tokenAddress>>)]
                  /\ pc' = [pc EXCEPT ![p] = "allowance"]
                  /\ UNCHANGED <<result, diag>>
  /\ UNCHANGED <<providerCache, req, gp, txs, calls, writes, returned, seen, failed>>
  /\ UNCHANGED est

\* the allowance check; then the approval or the first deposit is submitted
AllowanceDone(p, outcome) ==
  /\ pc[p] = "allowance"
  /\ IF ~outcome.ok
     THEN /\ Throw(p, Error("RpcError"))
          /\ UNCHANGED <<loc, txs>>
     ELSE LET l == [loc[p] EXCEPT !.allowance = outcome.value]
          IN /\ loc' = [loc EXCEPT ![p] = l]
             /\ IF NeedsApproval(outcome.value, l.parsedAmount)
                THEN Submit(p, ApproveTx(req[p], l))
                ELSE Submit(p, DepositTx(req[p], l, "depositRef"))
  /\ UNCHANGED <<providerCache, req, gp, net, calls, writes, returned, seen, failed>>
  /\ UNCHANGED est

\* ------------------------------------------------------- executeTransaction
\* what sendToken does once executeTransaction has returned or thrown for
\* the last transaction of t: the approval is followed by the first deposit;
\* the catch around the referral-shape deposit submits the legacy shape;
\* anything else ends the call
\* variant: the hash of the first transaction of the call is returned
ReturnedHash_First(t) == t[1].hash

\* return tx.hash, tx the receipt executeTransaction returned last
ReturnedHash(t) == t[Len(t)].hash

\* variant: the legacy-shape deposit also follows a referral-shape deposit
\* that succeeded (the fallback in a finally instead of a catch)
AfterTransaction_AlwaysFallback(p, t, ok, err) ==
  LET last == t[Len(t)]
  IN IF last.kind = "approve" /\ ok
     THEN /\ txs' = [txs EXCEPT ![p] = Append(t, DepositTx(req[p], loc[p], "depositRef"))]
          /\ pc' = [pc EXCEPT ![p] = "submit"]
          /\ UNCHANGED <<result, diag>>
     ELSE IF last.kind = "depositRef"
     THEN /\ txs' = [txs EXCEPT ![p] = Append(t, DepositTx(req[p], loc[p], "depositLegacy"))]
          /\ pc' = [pc EXCEPT ![p] = "submit"]
          /\ UNCHANGED <<result, diag>>
     ELSE IF ok
     THEN /\ txs' = [txs EXCEPT ![p] = t]
          /\ Return(p, ReturnedHash(t))
     ELSE /\ txs' = [txs EXCEPT ![p] = t]
          /\ Throw(p, err)

\* variant: a failed approval is ignored and the deposit is submitted anyway
AfterTransaction_ApprovalIgnored(p, t, ok, err) ==
  LET last == t[Len(t)]
  IN IF last.kind = "approve"
     THEN /\ txs' = [txs EXCEPT ![p] = Append(t, DepositTx(req[p], loc[p], "depositRef"))]
          /\ pc' = [pc EXCEPT ![p] = "submit"]
          /\ UNCHANGED <<result, diag>>
     ELSE IF ok
     THEN /\ txs' = [txs EXCEPT ![p] = t]
          /\ Return(p, ReturnedHash(t))
     ELSE IF last.kind = "depositRef"
     THEN /\ txs' = [txs EXCEPT ![p] = Append(t, DepositTx(req[p], loc[p], "depositLegacy"))]
          /\ pc' = [pc EXCEPT ![p] = "submit"]
          /\ UNCHANGED <<result, diag>>
     ELSE /\ txs' = [txs EXCEPT ![p] = t]
          /\ Throw(p, err)

\* variant: when the legacy-shape deposit fails too, the error of the
\* referral-shape attempt is the one thrown
AfterTransaction_FirstError(p, t, ok, err) ==
  LET last == t[Len(t)]
      first == t[Len(t) - 1]
  IN IF ok
     THEN IF last.kind = "approve"
          THEN /\ txs' = [txs EXCEPT ![p] = Append(t, DepositTx(req[p], loc[p], "depositRef"))]
               /\ pc' = [pc EXCEPT ![p] = "submit"]
               /\ UNCHANGED <<result, diag>>
          ELSE /\ txs' = [txs EXCEPT ![p] = t]
               /\ Return(p, ReturnedHash(t))
     ELSE IF last.kind = "depositRef"
          THEN /\ txs' = [txs EXCEPT ![p] = Append(t, DepositTx(req[p], loc[p], "depositLegacy"))]
               /\ pc' = [pc EXCEPT ![p] = "submit"]
               /\ UNCHANGED <<result, diag>>
          ELSE /\ txs' = [txs EXCEPT ![p] = t]
               /\ Throw(p, IF last.kind = "depositLegacy"
                           THEN TxError(IF first.status = "rejected" THEN "SubmissionFailed"
                                        ELSE IF first.status = "waitError" THEN "WaitFailed"
                                        ELSE "TransactionFailedOnChain", Len(t) - 1)
                           ELSE err)

AfterTransaction(p, t, ok, err) ==
  LET last == t[Len(t)]
  IN IF ok
     THEN IF last.kind = "approve"
          THEN /\ txs' = [txs EXCEPT ![p] = Append(t, DepositTx(req[p], loc[p], "depositRef"))]
               /\ pc' = [pc EXCEPT ![p] = "submit"]
               /\ UNCHANGED <<result, diag>>
          ELSE /\ txs' = [txs EXCEPT ![p] = t]
               /\ Return(p, ReturnedHash(t))
     ELSE IF last.kind = "depositRef"
          THEN /\ txs' = [txs EXCEPT ![p] = Append(t, DepositTx(req[p], loc[p], "depositLegacy"))]
               /\ pc' = [pc EXCEPT ![p] = "submit"]
               /\ UNCHANGED <<result, diag>>
          ELSE /\ txs' = [txs EXCEPT ![p] = t]
               /\ Throw(p, err)

\* await contract[method](...args, overrides) settles
SubmitDone(p, outcome) ==
  /\ pc[p] = "submit"
  /\ LET i == Len(txs[p])
     IN IF outcome = "accepted"
        THEN /\ txs' = [txs EXCEPT ![p][i].hash = <<p, calls[p], i>>,
                                   ![p][i].status = "pending"]
             /\ pc' = [pc EXCEPT ![p] = "wait"]
             /\ UNCHANGED <<result, diag>>
        ELSE AfterTransaction(p, [txs[p] EXCEPT ![i].status = "rejected"],
                              FALSE, TxError("SubmissionFailed", i))
  /\ UNCHANGED <<providerCache, req, gp, loc, net, calls, writes, returned, seen, failed>>
  /\ UNCHANGED est

\* variant: the receipt's status is not inspected
ReceiptFailed_Unchecked(status) == FALSE

\* receipt.status !== 1 throws "Transaction failed on-chain"
ReceiptFailed(status) == status # "success"

\* await txResponse.wait() settles with a receipt, or rejects
WaitDone(p, outcome) ==
  /\ pc[p] = "wait"
  /\ LET i == Len(txs[p])
         t == [txs[p] EXCEPT ![i].status = outcome]
     IN IF outcome = "waitError"
        THEN AfterTransaction(p, t, FALSE, TxError("WaitFailed", i))
        ELSE IF ReceiptFailed(outcome)
        THEN AfterTransaction(p, t, FALSE, TxError("TransactionFailedOnChain", i))
        ELSE AfterTransaction(p, t, TRUE, NoError)
  /\ UNCHANGED <<providerCache, req, gp, loc, net, calls, writes, returned, seen, failed>>
  /\ UNCHANGED est

\* a deposit whose client-side outcome leaves its fate on the chain open
IsBroadcastUnconfirmed(tx) ==
  /\ tx.kind \in {"depositRef", "depositLegacy"}
  /\ tx.status \in {"rejected", "waitError"}
  /\ ~tx.minedLater

\* ----------------------------------------------------------- specifications
\* one transfer at a time
Next ==
  \E p \in Transferers :
    \/ \E r \in Requests : StartTransfer(p, r)
    \/ \E o \in ProbeOutcomes : ProbeDone(p, o)
    \/ Resolved(p)
    \/ \E o \in FeeDataOutcomes : FeeDataDone(p, o)
    \/ \E o \in DecimalsOutcomes : DecimalsDone(p, o)
    \/ \E o \in ReadOutcomes : BalanceDone(p, o)
    \/ \E o \in ReadOutcomes : AllowanceDone(p, o)
    \/ \E o \in SubmitOutcomes : SubmitDone(p, o)
    \/ \E o \in WaitOutcomes : WaitDone(p, o)

Spec == Init /\ [][Next]_vars

\* the chain mines, with success, a deposit that was broadcast although the
\* client saw its submission or its wait() fail with a network error
MinedLater(p, i) ==
  /\ i \in 1..Len(txs[p])
  /\ IsBroadcastUnconfirmed(txs[p][i])
  /\ txs' = [txs EXCEPT ![p][i].minedLater = TRUE]
  /\ UNCHANGED <<providerCache, pc, req, gp, loc, net, result, diag, calls,
                 writes, returned, seen, failed, est>>

\* one transfer at a time, and the chain's own progress
NextChain ==
  \/ Next
  \/ \E p \in Transferers : \E i \in 1..Len(txs[p]) : MinedLater(p, i)

SpecChain == Init /\ [][NextChain]_vars

\* concurrent direct calls of getProvider
NextResolve ==
  \E p \in Resolvers :
    \/ \E c \in KnownChains : StartResolve(p, c)
    \/ \E o \in ProbeOutcomes : ProbeDone(p, o)

SpecResolve == Init /\ [][NextResolve]_vars

\* the race of a probe with its setTimeout settles and getProvider resumes
ProbeSettles(p) == \E o \in ProbeOutcomes : ProbeDone(p, o)

\* the same with the event loop's guarantee that every probe settles
SpecResolveFair == SpecResolve /\ \A p \in Resolvers : WF_vars(ProbeSettles(p))

\* getGasParams on its own, for every fee-data outcome and override set
\* of a bounded range
RECURSIVE BigOfNat(_)
BigOfNat(n) == IF n < 10 THEN <<n>> ELSE Append(BigOfNat(n \div 10), n % 10)

LargeFee == parseUnits(Dec(<<3, 0>>, <<>>), GweiDecimals)
LiveFees == {Null, LargeFee} \cup {BigOfNat(n) : n \in 0..MaxLiveFee}
EstFeeData ==
  {[ok |-> FALSE, maxFeePerGas |-> Null, maxPriorityFeePerGas |-> Null]}
  \cup [ok : {TRUE}, maxFeePerGas : LiveFees, maxPriorityFeePerGas : LiveFees]
EstOverrides ==
  [maxFeePerGas : {Null, <<7>>}, maxPriorityFeePerGas : {Null, <<3>>},
   gasLimit : {0, 250000}]

InitGas ==
  /\ InitTransfers
  /\ est \in {[NoEst EXCEPT !.feeData = f, !.overrideSettings = o, !.phase = "called"] :
                f \in EstFeeData, o \in EstOverrides}

Estimate ==
  /\ est.phase = "called"
  /\ est' = [est EXCEPT !.phase = "returned",
                        !.out = getGasParams(est.feeData, est.overrideSettings)]
  /\ UNCHANGED <<providerCache, pc, req, gp, loc, net, txs, result, diag, calls,
                 writes, returned, seen, failed>>

NextGas == Estimate

SpecGas == InitGas /\ [][NextGas]_vars

\* ------------------------------------------------------------------ claims
IsDeposit(tx) == tx.kind \in {"depositRef", "depositLegacy"}
Ops(p) == {net[p][i][1] : i \in 1..Len(net[p])}
Kinds(p) == {txs[p][i].kind : i \in 1..Len(txs[p])}
FailedStatus == {"rejected", "waitError", "reverted"}

\* C1: a transfer whose source or destination chain is not in the chain
\* configuration ends, in the step that starts it, with the chain validation
\* error; that call issues no probe, no read and no transaction, and the
\* connection cache is as it was.
C1_UnknownChainRejectedOffline ==
  [][\A p \in Transferers :
       (/\ calls'[p] # calls[p]
        /\ ~(req'[p].sourceChain \in KnownChains /\ req'[p].destChain \in KnownChains))
       => /\ pc'[p] = "done"
          /\ result'[p].status = "error"
          /\ result'[p].error.type = "InvalidChainConfiguration"
          /\ net'[p] = <<>>
          /\ txs'[p] = <<>>
          /\ gp'[p] = NoGp
          /\ providerCache' = providerCache
          /\ writes' = writes]_vars

C1_Witness ==
  \E p \in Transferers :
    /\ pc[p] = "done"
    /\ req[p].sourceChain = "SEPOLIA"
    /\ req[p].destChain = "UNKNOWN"
    /\ result[p].error.type = "InvalidChainConfiguration"
    /\ providerCache["SEPOLIA"] # <<>>

\* the signing keys of the form 0x + 64 hex digits, stated on its own
WellFormedKey(k) ==
  /\ DOMAIN k = 1..66
  /\ <<k[1], k[2]>> = <<"0", "x">>
  /\ {k[i] : i \in 3..66} \subseteq
       {"0", "1", "2", "3", "4", "5", "6", "7", "8", "9", "a", "b", "c", "d", "e", "f",
        "A", "B", "C", "D", "E", "F"}

\* C2: a transfer with known chains whose signing key is absent or is not 0x
\* followed by exactly 64 hex digits ends, in the step that starts it, with
\* the key validation error, before getProvider is entered: no probe, no read
\* and no transaction in that call.
C2_BadKeyRejectedOffline ==
  [][\A p \in Transferers :
       (/\ calls'[p] # calls[p]
        /\ req'[p].sourceChain \in KnownChains
        /\ req'[p].destChain \in KnownChains
        /\ (req'[p].privateKey = NoKey \/ ~WellFormedKey(req'[p].privateKey)))
       => /\ pc'[p] = "done"
          /\ result'[p].status = "error"
          /\ result'[p].error.type = "InvalidPrivateKey"
          /\ net'[p] = <<>>
          /\ txs'[p] = <<>>
          /\ gp'[p] = NoGp
          /\ seen' = seen
          /\ providerCache' = providerCache]_vars

C2_Witness ==
  \E p \in Transferers :
    /\ pc[p] = "done"
    /\ req[p].sourceChain \in KnownChains
    /\ req[p].destChain \in KnownChains
    /\ Len(req[p].privateKey) = 67
    /\ result[p].error.type = "InvalidPrivateKey"
    /\ net[p] = <<>>

\* C3 as stated: a finished transfer in which some submitted transaction was
\* mined with a failure status has failed with the on-chain execution error.
C3_AnyRevertFailsTransfer ==
  \A p \in Transferers :
    (pc[p] = "done" /\ \E i \in 1..Len(txs[p]) : txs[p][i].status = "reverted")
    => /\ result[p].status = "error"
       /\ result[p].error.type = "TransactionFailedOnChain"

\* C3 amended: a transaction mined with a failure status is either the last
\* one of the call, and then the call has failed with the on-chain execution
\* error and returned no hash, or it is the referral-shape deposit and the
\* legacy-shape deposit was submitted right after it.
C3_LastRevertFailsTransfer ==
  \A p \in Transferers :
    \A i \in 1..Len(txs[p]) :
      txs[p][i].status = "reverted"
      => IF i = Len(txs[p])
         THEN /\ pc[p] = "done"
              /\ result[p].status = "error"
              /\ result[p].error.type = "TransactionFailedOnChain"
              /\ result[p].hash = <<>>
              /\ txs[p][i].kind \in {"approve", "depositLegacy"}
         ELSE /\ txs[p][i].kind = "depositRef"
              /\ txs[p][i + 1].kind = "depositLegacy"

C3_Witness ==
  \E p \in Transferers :
    /\ pc[p] = "done"
    /\ Len(txs[p]) = 3
    /\ txs[p][2].status = "reverted"
    /\ txs[p][3].status = "reverted"
    /\ result[p].error.type = "TransactionFailedOnChain"

\* C4: a transfer that returned a hash returned the hash of the last
\* transaction it submitted, that transaction is a deposit (not the approval)
\* and its receipt has success status; no other transaction of the call has
\* that hash.
C4_HashOfLastSuccessfulDeposit ==
  \A p \in Transferers :
    result[p].status = "ok"
    => /\ pc[p] = "done"
       /\ txs[p] # <<>>
       /\ LET n == Len(txs[p])
          IN /\ IsDeposit(txs[p][n])
             /\ txs[p][n].status = "success"
             /\ result[p].hash # <<>>
             /\ result[p].hash = txs[p][n].hash
             /\ \A i \in 1..(n - 1) : txs[p][i].hash # result[p].hash

C4_Witness ==
  \E p \in Transferers :
    /\ result[p].status = "ok"
    /\ Len(txs[p]) = 3
    /\ txs[p][1].kind = "approve"
    /\ txs[p][3].kind = "depositLegacy"

\* C5: in the token path, once the allowance has been read: if it is at
\* least the required amount the call submits no approval; if it is less, the
\* first transaction of the call is the approval, it is the only approval, it
\* is for twice the required amount, and a deposit is submitted only after
\* the approval's receipt reported success.
C5_ApprovalOnlyWhenNeeded ==
  \A p \in Transferers :
    loc[p].allowance # Null
    => LET t == txs[p]
           required == parseUnits(req[p].amount, loc[p].decimals)
       IN IF BigLt(loc[p].allowance, required)
          THEN /\ t # <<>>
               /\ t[1].kind = "approve"
               /\ t[1].method = "approve"
               /\ t[1].args = <<UNION_CONTRACT(req[p].sourceChain), BigMul(required, 2)>>
               /\ \A i \in 2..Len(t) : IsDeposit(t[i]) /\ t[1].status = "success"
          ELSE /\ t # <<>>
               /\ \A i \in 1..Len(t) : IsDeposit(t[i])

C5_Witness ==
  \E p \in Transferers :
    /\ loc[p].allowance = parseUnits(Dec(<<0>>, <<5>>), 6)
    /\ loc[p].parsedAmount = parseUnits(Dec(<<1>>, <<>>), 6)
    /\ Len(txs[p]) = 2
    /\ txs[p][1].kind = "approve"
    /\ txs[p][1].args[2] = <<2, 0, 0, 0, 0, 0, 0>>
    /\ txs[p][2].kind = "depositRef"

\* C6: in the native and in the token path, the legacy-shape deposit is
\* submitted only right after a referral-shape deposit that failed, every
\* failure of the referral-shape deposit is followed by it, and when the
\* legacy-shape deposit succeeds the transfer returns its hash.
C6_FallbackAfterReferralFailure ==
  \A p \in Transferers :
    \A i \in 1..Len(txs[p]) :
      /\ txs[p][i].kind = "depositLegacy"
         => /\ i > 1
            /\ txs[p][i - 1].kind = "depositRef"
            /\ txs[p][i - 1].status \in FailedStatus
            /\ txs[p][i].method = txs[p][i - 1].method
            /\ Len(txs[p][i].args) = Len(txs[p][i - 1].args) - 1
      /\ (txs[p][i].kind = "depositRef" /\ txs[p][i].status \in FailedStatus)
         => /\ i < Len(txs[p])
            /\ txs[p][i + 1].kind = "depositLegacy"
      /\ (txs[p][i].kind = "depositLegacy" /\ txs[p][i].status = "success")
         => /\ pc[p] = "done"
            /\ result[p].status = "ok"
            /\ result[p].hash = txs[p][i].hash
            /\ result[p].hash # txs[p][i - 1].hash

C6_Witness ==
  \E p \in Transferers :
    /\ req[p].asset = "native"
    /\ Len(txs[p]) = 2
    /\ txs[p][1].kind = "depositRef"
    /\ txs[p][1].status = "reverted"
    /\ txs[p][2].kind = "depositLegacy"
    /\ txs[p][2].status = "success"
    /\ result[p].status = "ok"

\* C7: in the token path, once the balance read is below the requested amount
\* in base units the call has failed with the insufficient-balance error,
\* which carries the amount as requested and the balance in token units, and
\* the call has read no allowance and submitted no transaction.
C7_InsufficientBalanceStops ==
  \A p \in Transferers :
    (loc[p].balance # Null /\ BigLt(loc[p].balance, parseUnits(req[p].amount, loc[p].decimals)))
    => /\ pc[p] = "done"
       /\ result[p].status = "error"
       /\ result[p].error.type = "InsufficientBalance"
       /\ result[p].error.need = req[p].amount
       /\ parseUnits(result[p].error.has, loc[p].decimals) = loc[p].balance
       /\ "allowance" \notin Ops(p)
       /\ txs[p] = <<>>

C7_Witness ==
  \E p \in Transferers :
    /\ loc[p].decimals = 6
    /\ req[p].amount = Dec(<<1>>, <<>>)
    /\ loc[p].balance = parseUnits(Dec(<<0>>, <<5>>), 6)
    /\ result[p].error.type = "InsufficientBalance"
    /\ result[p].error.has = Dec(<<0>>, <<5>>)

\* the probes of the first n candidates of chain c, in candidate order
Probes(c, n) == [i \in 1..n |-> <<"probe", Endpoints(c)[i]>>]

\* C8 as stated: a getProvider call that found the cache entry empty probes
\* the candidates in the order primary, fallbacks, public default, returns the
\* provider of the first candidate that answered and stores it; a call that
\* starts after a call for the chain has returned a provider returns that
\* same provider and probes nothing.
C8_FirstAnswerCachedAndReused ==
  \A p \in Resolvers :
    LET c == gp[p].chainId
    IN /\ gp[p].miss
          => /\ net[p] = Probes(c, gp[p].idx)
             /\ Endpoints(c) \in {<<RPC_URLS(c)>> \o RPC_FALLBACKS(c) \o <<PublicDefaultUrl>>,
                                  RPC_FALLBACKS(c) \o <<PublicDefaultUrl>>}
       /\ (gp[p].miss /\ result[p].status = "ok")
          => /\ result[p].provider[1].url = Endpoints(c)[gp[p].idx]
             /\ result[p].provider[1] \in {writes[c][i] : i \in 1..Len(writes[c])}
       /\ (result[p].status = "ok" /\ seen[p] # {})
          => /\ seen[p] = {result[p].provider[1]}
             /\ ~gp[p].miss
             /\ net[p] = <<>>

\* C9: the cache entry of a chain is written at most once, and all
\* getProvider calls for the chain that return a provider return the same one.
C9_ResolvedOncePerChain ==
  \A c \in KnownChains :
    /\ Len(writes[c]) <= 1
    /\ Cardinality(returned[c]) <= 1

\* C10: a getProvider call fails only after it has probed every candidate of
\* the chain, in order; it fails with the all-endpoints-failed error naming
\* the chain and leaves the cache as it was; a call for that chain started
\* after such a failure, with the cache entry still empty, probes again,
\* starting with the first candidate.
C10_FailureNotCached ==
  [][\A p \in Resolvers :
       /\ (pc[p] = "probe" /\ result'[p].status = "error")
          => /\ result'[p].error = AllFailedError(gp[p].chainId)
             /\ result'[p].provider = <<>>
             /\ net[p] = Probes(gp[p].chainId, Len(Endpoints(gp[p].chainId)))
             /\ providerCache' = providerCache
             /\ writes' = writes
       /\ (/\ calls'[p] # calls[p]
           /\ req'[p].sourceChain \in failed
           /\ providerCache[req'[p].sourceChain] = <<>>)
          => /\ pc'[p] = "probe"
             /\ result'[p].status = "none"
             /\ net'[p] = Probes(req'[p].sourceChain, 1)]_vars

C10_Witness ==
  \E p \in Resolvers :
    /\ gp[p].chainId = "SEPOLIA"
    /\ gp[p].afterFail
    /\ gp[p].miss
    /\ result[p].status = "ok"
    /\ result[p].provider[1].url = Endpoints("SEPOLIA")[2]

\* a wei amount as getGasParams can return it: canonical decimal digits
IsWei(v) ==
  /\ Len(v) >= 1
  /\ \A i \in 1..Len(v) : v[i] \in 0..9
  /\ (Len(v) > 1 => v[1] # 0)

TwentyGwei == <<2, 0, 0, 0, 0, 0, 0, 0, 0, 0, 0>>
FifteenGwei == <<1, 5, 0, 0, 0, 0, 0, 0, 0, 0, 0>>

\* C11: getGasParams never raises an error: whatever the live fee-data read
\* gives and whatever the overrides are, it returns a triple of two wei
\* amounts and a positive gas limit; when the fee-data read throws the triple
\* is exactly 20 gwei, 15 gwei and 500000.
C11_EstimatorNeverRaises ==
  est.phase = "returned" =>
    /\ IsWei(est.out.maxFeePerGas)
    /\ IsWei(est.out.maxPriorityFeePerGas)
    /\ est.out.gasLimit \in Nat \ {0}
    /\ (~est.feeData.ok =>
          est.out = [maxFeePerGas |-> TwentyGwei,
                     maxPriorityFeePerGas |-> FifteenGwei,
                     gasLimit |-> 500000])

C11_Witness ==
  /\ est.phase = "returned"
  /\ ~est.feeData.ok
  /\ est.overrideSettings.gasLimit # 0
  /\ est.out.maxFeePerGas = TwentyGwei

\* C12: without overrides and with live fees f and p that are positive,
\* getGasParams returns floor(f*125/100), floor(p*125/100) and 500000, for
\* every f and p up to MaxLiveFee, and 37.5 gwei for a live 30 gwei.
C12_MarkupIsFloorOf125Percent ==
  (est.phase = "returned" /\ est.feeData.ok /\ est.overrideSettings = NoOverrides) =>
    /\ \A f, q \in 1..MaxLiveFee :
         (/\ est.feeData.maxFeePerGas = BigOfNat(f)
          /\ est.feeData.maxPriorityFeePerGas = BigOfNat(q))
         => est.out = [maxFeePerGas |-> BigOfNat((f * 125) \div 100),
                       maxPriorityFeePerGas |-> BigOfNat((q * 125) \div 100),
                       gasLimit |-> 500000]
    /\ \A q \in 1..MaxLiveFee :
         (/\ est.feeData.maxFeePerGas = <<3, 0, 0, 0, 0, 0, 0, 0, 0, 0, 0>>
          /\ est.feeData.maxPriorityFeePerGas = BigOfNat(q))
         => est.out = [maxFeePerGas |-> <<3, 7, 5, 0, 0, 0, 0, 0, 0, 0, 0>>,
                       maxPriorityFeePerGas |-> BigOfNat((q * 125) \div 100),
                       gasLimit |-> 500000]

C12_Witness ==
  /\ est.phase = "returned"
  /\ est.overrideSettings = NoOverrides
  /\ est.feeData = [ok |-> TRUE, maxFeePerGas |-> <<1, 0>>, maxPriorityFeePerGas |-> <<5>>]
  /\ est.out = [maxFeePerGas |-> <<1, 2>>, maxPriorityFeePerGas |-> <<6>>,
                gasLimit |-> 500000]

\* C13: when the fee-data read succeeds, each field of the result is decided
\* on its own: the override if supplied, else the marked-up live value if one
\* is reported, else the fixed default; the gas limit is the override if
\* supplied, else 500000; a live value that is null for one field leaves the
\* other two fields as they would be.
C13_FieldsDecidedIndependently ==
  (est.phase = "returned" /\ est.feeData.ok) =>
    /\ est.out.maxFeePerGas =
         IF est.overrideSettings.maxFeePerGas # Null
         THEN est.overrideSettings.maxFeePerGas
         ELSE IF est.feeData.maxFeePerGas # Null
         THEN Markup(est.feeData.maxFeePerGas)
         ELSE TwentyGwei
    /\ est.out.maxPriorityFeePerGas =
         IF est.overrideSettings.maxPriorityFeePerGas # Null
         THEN est.overrideSettings.maxPriorityFeePerGas
         ELSE IF est.feeData.maxPriorityFeePerGas # Null
         THEN Markup(est.feeData.maxPriorityFeePerGas)
         ELSE FifteenGwei
    /\ est.out.gasLimit =
         IF est.overrideSettings.gasLimit # 0
         THEN est.overrideSettings.gasLimit
         ELSE 500000

\* the error executeTransaction throws for a transaction that ended in status
ErrorTypeOf(status) ==
  IF status = "rejected" THEN "SubmissionFailed"
  ELSE IF status = "waitError" THEN "WaitFailed"
  ELSE "TransactionFailedOnChain"

DepositsAt(p, kind) == {i \in 1..Len(txs[p]) : txs[p][i].kind = kind}

\* C14: a transfer submits at most two deposits: the referral shape once,
\* first (exactly once in a transfer that returns a hash); the legacy shape at most once, right after a referral-shape deposit
\* that failed, and nothing after it; when the legacy deposit fails too, the
\* error of the call is the error of the legacy attempt.
C14_OneFallbackLegacyErrorSurfaces ==
  \A p \in Transferers :
    LET t == txs[p]
    IN /\ Cardinality(DepositsAt(p, "depositRef")) <= 1
       /\ Cardinality(DepositsAt(p, "depositLegacy")) <= 1
       /\ (pc[p] = "done" /\ result[p].status = "ok") =>
            Cardinality(DepositsAt(p, "depositRef")) = 1
       /\ \A i \in DepositsAt(p, "depositLegacy") :
            /\ i = Len(t)
            /\ i > 1
            /\ t[i - 1].kind = "depositRef"
            /\ t[i - 1].status \in FailedStatus
       /\ \A i \in DepositsAt(p, "depositRef") :
            i < Len(t) => (i + 1 = Len(t) /\ t[i].status \in FailedStatus)
       /\ (Len(t) > 0 /\ t[Len(t)].kind = "depositLegacy"
            /\ t[Len(t)].status \in FailedStatus) =>
            /\ pc[p] = "done"
            /\ result[p].status = "error"
            /\ result[p].error.tx = Len(t)
            /\ result[p].error.type = ErrorTypeOf(t[Len(t)].status)

C14_Witness ==
  \E p \in Transferers :
    /\ pc[p] = "done"
    /\ Len(txs[p]) = 3
    /\ txs[p][2].kind = "depositRef" /\ txs[p][2].status = "reverted"
    /\ txs[p][3].kind = "depositLegacy" /\ txs[p][3].status = "waitError"
    /\ result[p].error = TxError("WaitFailed", 3)

FeeReads(p) == {i \in 1..Len(net[p]) : net[p][i][1] = "getFeeData"}

\* C15 as stated: a transfer that has submitted transactions has read the
\* live fee data once for each of them.
C15_FeeReadPerTransaction ==
  \A p \in Transferers :
    (pc[p] = "done" /\ Len(txs[p]) > 0) => Cardinality(FeeReads(p)) = Len(txs[p])

\* C15, amended: a transfer reads the live fee data at most once, and exactly
\* once before it submits anything; every transaction it submits carries the
\* max fee and the priority fee of that one computation, which are either
\* the marked-up live fees (12 and 6 for a live 10 and 5) or the defaults.
C15_FeesComputedOncePerTransfer ==
  \A p \in Transferers :
    /\ Cardinality(FeeReads(p)) <= 1
    /\ Len(txs[p]) > 0 =>
         /\ Cardinality(FeeReads(p)) = 1
         /\ pc[p] # "feeData"
    /\ \A i, j \in 1..Len(txs[p]) :
         /\ txs[p][i].overrides.maxFeePerGas = txs[p][j].overrides.maxFeePerGas
         /\ txs[p][i].overrides.maxPriorityFeePerGas =
              txs[p][j].overrides.maxPriorityFeePerGas
    /\ \A i \in 1..Len(txs[p]) :
         <<txs[p][i].overrides.maxFeePerGas, txs[p][i].overrides.maxPriorityFeePerGas>>
           \in {<<TwentyGwei, FifteenGwei>>, <<<<1, 2>>, <<6>>>>}

C15_Witness ==
  \E p \in Transferers :
    /\ pc[p] = "done"
    /\ Len(txs[p]) = 3
    /\ Cardinality(FeeReads(p)) = 1
    /\ \A i \in 1..3 : txs[p][i].overrides.maxFeePerGas = <<1, 2>>

\* the probes of the current getProvider call of p are of distinct
\* candidates, in list order; a call that returned the provider it probed
\* issued its last probe to that provider's endpoint; a call that threw had
\* probed every candidate once
ProbesBounded(p) ==
  LET c == gp[p].chainId
      n == Len(net[p])
  IN /\ n <= Len(Endpoints(c))
     /\ \A i, j \in 1..n : i # j => net[p][i] # net[p][j]
     /\ \A i \in 1..n : net[p][i] = <<"probe", Endpoints(c)[i]>>
     /\ (pc[p] = "done" /\ gp[p].miss /\ result[p].status = "ok") =>
          /\ n >= 1
          /\ net[p][n][2] = result[p].provider[1].url
     /\ (pc[p] = "done" /\ result[p].status = "error") =>
          /\ n = Len(Endpoints(c))
          /\ result[p].error = AllFailedError(c)

\* C16: a getProvider call probes each candidate at most once and none after
\* the one that answered, and every call that is probing eventually ends,
\* returning a provider or throwing the all-endpoints-failed error.
C16_ProbesBoundedAndResolveTerminates ==
  /\ [](\A p \in Resolvers : ProbesBounded(p))
  /\ \A p \in Resolvers :
       (pc[p] = "probe") ~> (pc[p] = "done" /\ result[p].status \in {"ok", "error"})

C16_Witness ==
  \E p, q \in Resolvers :
    /\ pc[p] = "done" /\ result[p].status = "error"
    /\ net[p] = Probes("SEPOLIA", 3)
    /\ pc[q] = "done" /\ result[q].status = "ok"
    /\ gp[q].miss /\ gp[q].chainId = "SEPOLIA" /\ Len(net[q]) = 2

LastOp(p) == IF net[p] = <<>> THEN "" ELSE net[p][Len(net[p])][1]

\* the error e is the one the step that failed in the finished call of p
\* throws, told from what the call was given and what it had issued
ErrorOfFailingStep(p, e) ==
  LET r == req[p]
      t == txs[p]
      chainsKnown == r.sourceChain \in KnownChains /\ r.destChain \in KnownChains
  IN IF t # <<>>
     THEN /\ t[Len(t)].status \in FailedStatus
          /\ e = [type |-> ErrorTypeOf(t[Len(t)].status), chain |-> "",
                  need |-> NoDec, has |-> NoDec, tx |-> Len(t)]
     ELSE /\ e.tx = 0
          /\ e.type \in {"InvalidChainConfiguration", "InvalidPrivateKey", "InvalidAddress",
                          "AllEndpointsFailed", "MissingBridgeAddress", "ParseError",
                          "InvalidContractTarget", "RpcError", "InsufficientBalance"}
          /\ e.type = "InvalidChainConfiguration" <=> ~chainsKnown
          /\ e.type = "InvalidPrivateKey" <=> (chainsKnown /\ ~WellFormedKey(r.privateKey))
          /\ e.type \in {"InvalidChainConfiguration", "InvalidPrivateKey"} <=> calls[p] > 0 /\ net[p] = <<>> /\ gp[p] = NoGp
          /\ e.type = "AllEndpointsFailed" =>
               /\ e.chain = r.sourceChain
               /\ net[p] = Probes(r.sourceChain, Len(Endpoints(r.sourceChain)))
          /\ e.type = "InvalidAddress" =>
               /\ r.recipient = "not-an-address"
               /\ LastOp(p) \in {"", "probe"}
          /\ e.type = "MissingBridgeAddress" =>
               (r.sourceChain = "HOLESKY" /\ LastOp(p) = "getFeeData")
          /\ e.type = "InvalidContractTarget" =>
               (r.asset = "WETH" /\ LastOp(p) = "getFeeData")
          /\ e.type = "ParseError" => LastOp(p) \in {"getFeeData", "decimals"}
          /\ e.type = "RpcError" => LastOp(p) \in {"balanceOf", "allowance"}
          /\ e.type = "InsufficientBalance" =>
               /\ LastOp(p) = "balanceOf"
               /\ e.need = r.amount
          /\ e.type # "AllEndpointsFailed" => e.chain = ""
          /\ e.type # "InsufficientBalance" => (e.need = NoDec /\ e.has = NoDec)

\* C17: a sendToken call ends either with a hash or with an error, never
\* both and never neither; the error is the one of the step that failed,
\* unchanged, and exactly one diagnostic entry is logged for a call that
\* throws, none for a call that returns.
C17_HashOrUnchangedErrorWithOneDiagnostic ==
  \A p \in Transferers :
    /\ diag[p] <= 1
    /\ pc[p] # "done" => (result[p] = NoResult /\ diag[p] = 0)
    /\ pc[p] = "done" =>
         \/ /\ result[p].status = "ok"
            /\ result[p].hash # <<>>
            /\ result[p].error = NoError
            /\ diag[p] = 0
         \/ /\ result[p].status = "error"
            /\ result[p].hash = <<>>
            /\ result[p].error # NoError
            /\ ErrorOfFailingStep(p, result[p].error)
            /\ diag[p] = 1

C17_Witness ==
  \E p \in Transferers :
    /\ pc[p] = "done"
    /\ calls[p] = 2
    /\ LastOp(p) = "allowance"
    /\ txs[p] = <<>>
    /\ result[p].error = Error("RpcError")
    /\ diag[p] = 1

OnChainSuccess(tx) == tx.status = "success" \/ tx.minedLater

\* C18: of the deposits one transfer has broadcast, at most one is mined
\* with success status, also when the client saw the submission or the wait
\* of the referral-shape deposit fail with a network error.
C18_AtMostOneDepositSucceedsOnChain ==
  \A p \in Transferers :
    Cardinality({i \in 1..Len(txs[p]) :
                   IsDeposit(txs[p][i]) /\ OnChainSuccess(txs[p][i])}) <= 1

\* C19: an approval that fails (rejected at submission, wait failed, or mined
\* with a failure status) is the only approval and the last transaction of
\* its transfer: no deposit follows it, and the transfer ends with the
\* approval's own error and no hash.
C19_FailedApprovalStopsTransfer ==
  \A p \in Transferers :
    LET t == txs[p]
    IN /\ DepositsAt(p, "approve") \subseteq {1}
       /\ (t # <<>> /\ t[1].kind = "approve" /\ t[1].status \in FailedStatus) =>
            /\ Len(t) = 1
            /\ pc[p] = "done"
            /\ result[p].status = "error"
            /\ result[p].hash = <<>>
            /\ result[p].error.tx = 1
            /\ result[p].error.type = ErrorTypeOf(t[1].status)

C19_Witness ==
  \E p \in Transferers :
    /\ pc[p] = "done"
    /\ Len(txs[p]) = 1
    /\ txs[p][1].kind = "approve"
    /\ txs[p][1].status = "waitError"
    /\ req[p].asset = "WETH"
    /\ result[p].error = TxError("WaitFailed", 1)

OverrideOrDefault(r) == IF r.gasSettings.gasLimit # 0 THEN r.gasSettings.gasLimit ELSE 500000

\* C20 as stated: every deposit, native or token, referral or legacy shape,
\* carries the caller's gas-limit override if one was supplied, else 500000.
C20_DepositsCarryEstimatedGasLimit ==
  \A p \in Transferers : \A i \in 1..Len(txs[p]) :
    IsDeposit(txs[p][i]) => txs[p][i].overrides.gasLimit = OverrideOrDefault(req[p])

\* C20, amended: a native deposit, of either shape, carries the gas limit
\* getGasParams returned: the override, else 500000, when the fees are the
\* live ones, and 500000 when getGasParams fell back to its defaults; a token
\* deposit, of either shape, carries 350000 for WETH and 300000 for any
\* other token, whatever the override.
C20_NativeEstimatedTokenFixedGasLimit ==
  \A p \in Transferers : \A i \in 1..Len(txs[p]) :
    LET tx == txs[p][i]
    IN IsDeposit(tx) =>
         IF req[p].asset \in {"native", "NATIVE"}
         THEN /\ tx.method = "depositNative"
              /\ tx.overrides.gasLimit = loc[p].gasParams.gasLimit
              /\ tx.overrides.gasLimit \in {OverrideOrDefault(req[p]), 500000}
              /\ tx.overrides.maxFeePerGas # TwentyGwei =>
                   tx.overrides.gasLimit = OverrideOrDefault(req[p])
         ELSE /\ tx.method = "depositERC20"
              /\ tx.overrides.gasLimit = IF req[p].asset = "WETH" THEN 350000 ELSE 300000

C20_Witness ==
  \E p \in Transferers :
    /\ pc[p] = "done"
    /\ result[p].status = "ok"
    /\ req[p].asset = "WETH"
    /\ req[p].gasSettings.gasLimit = 250000
    /\ loc[p].gasParams.gasLimit = 250000
    /\ Len(txs[p]) = 2
    /\ txs[p][1].kind = "depositRef" /\ txs[p][1].overrides.gasLimit = 350000
    /\ txs[p][2].kind = "depositLegacy" /\ txs[p][2].overrides.gasLimit = 350000

====
